---- MODULE Spec2Model ----
(***************************************************************************)
(* A model of src/server.js: the location resolver (normalizeLocation,     *)
(* isValidLocation), the time-boxed cache (getCache, setCache), the         *)
(* forecast reshaping loop and the request handler getWeatherByLocation.    *)
(*                                                                         *)
(* Strings are sequences of characters.  An ASCII character is itself; any *)
(* other character is written as its code point, so "U+81FA" is the formal *)
(* character 臺 and "U+53F0" the casual character 台.                      *)
(***************************************************************************)
EXTENDS Integers, Sequences, FiniteSets, TLC

----------------------------------------------------------------------------
(* The canonical names, server.js line 15, in the order of the array.      *)
L_taipei == <<"U+81FA", "U+5317", "U+5E02">>  \* 臺北市
L_newtaipei == <<"U+65B0", "U+5317", "U+5E02">>  \* 新北市
L_taoyuan == <<"U+6843", "U+5712", "U+5E02">>  \* 桃園市
L_taichung == <<"U+81FA", "U+4E2D", "U+5E02">>  \* 臺中市
L_tainan == <<"U+81FA", "U+5357", "U+5E02">>  \* 臺南市
L_kaohsiung == <<"U+9AD8", "U+96C4", "U+5E02">>  \* 高雄市
L_keelung == <<"U+57FA", "U+9686", "U+5E02">>  \* 基隆市
L_hsinchu_city == <<"U+65B0", "U+7AF9", "U+5E02">>  \* 新竹市
L_hsinchu_county == <<"U+65B0", "U+7AF9", "U+7E23">>  \* 新竹縣
L_miaoli == <<"U+82D7", "U+6817", "U+7E23">>  \* 苗栗縣
L_changhua == <<"U+5F70", "U+5316", "U+7E23">>  \* 彰化縣
L_nantou == <<"U+5357", "U+6295", "U+7E23">>  \* 南投縣
L_yunlin == <<"U+96F2", "U+6797", "U+7E23">>  \* 雲林縣
L_chiayi_city == <<"U+5609", "U+7FA9", "U+5E02">>  \* 嘉義市
L_chiayi_county == <<"U+5609", "U+7FA9", "U+7E23">>  \* 嘉義縣
L_pingtung == <<"U+5C4F", "U+6771", "U+7E23">>  \* 屏東縣
L_yilan == <<"U+5B9C", "U+862D", "U+7E23">>  \* 宜蘭縣
L_hualien == <<"U+82B1", "U+84EE", "U+7E23">>  \* 花蓮縣
L_taitung == <<"U+81FA", "U+6771", "U+7E23">>  \* 臺東縣
L_penghu == <<"U+6F8E", "U+6E56", "U+7E23">>  \* 澎湖縣
L_kinmen == <<"U+91D1", "U+9580", "U+7E23">>  \* 金門縣
L_lienchiang == <<"U+9023", "U+6C5F", "U+7E23">>  \* 連江縣

VALID_LOCATIONS ==
  << L_taipei, L_newtaipei, L_taoyuan, L_taichung,
     L_tainan, L_kaohsiung, L_keelung, L_hsinchu_city,
     L_hsinchu_county, L_miaoli, L_changhua, L_nantou,
     L_yunlin, L_chiayi_city, L_chiayi_county, L_pingtung,
     L_yilan, L_hualien, L_taitung, L_penghu,
     L_kinmen, L_lienchiang >>

(* The alias table, server.js lines 18-48: own properties of the object. *)
LOCATION_ALIASES ==
  <<"U+53F0", "U+5317", "U+5E02">> :> L_taipei @@  \* 台北市
  <<"U+53F0", "U+4E2D", "U+5E02">> :> L_taichung @@  \* 台中市
  <<"U+53F0", "U+5357", "U+5E02">> :> L_tainan @@  \* 台南市
  <<"U+53F0", "U+6771", "U+7E23">> :> L_taitung @@  \* 台東縣
  <<"t", "a", "i", "p", "e", "i">> :> L_taipei @@
  <<"n", "e", "w", "t", "a", "i", "p", "e", "i">> :> L_newtaipei @@
  <<"t", "a", "o", "y", "u", "a", "n">> :> L_taoyuan @@
  <<"t", "a", "i", "c", "h", "u", "n", "g">> :> L_taichung @@
  <<"t", "a", "i", "n", "a", "n">> :> L_tainan @@
  <<"k", "a", "o", "h", "s", "i", "u", "n", "g">> :> L_kaohsiung @@
  <<"k", "e", "e", "l", "u", "n", "g">> :> L_keelung @@
  <<"h", "s", "i", "n", "c", "h", "u", "_", "c", "i", "t", "y">> :> L_hsinchu_city @@
  <<"h", "s", "i", "n", "c", "h", "u", "_", "c", "o", "u", "n", "t", "y">> :> L_hsinchu_county @@
  <<"m", "i", "a", "o", "l", "i">> :> L_miaoli @@
  <<"c", "h", "a", "n", "g", "h", "u", "a">> :> L_changhua @@
  <<"n", "a", "n", "t", "o", "u">> :> L_nantou @@
  <<"y", "u", "n", "l", "i", "n">> :> L_yunlin @@
  <<"c", "h", "i", "a", "y", "i", "_", "c", "i", "t", "y">> :> L_chiayi_city @@
  <<"c", "h", "i", "a", "y", "i", "_", "c", "o", "u", "n", "t", "y">> :> L_chiayi_county @@
  <<"p", "i", "n", "g", "t", "u", "n", "g">> :> L_pingtung @@
  <<"y", "i", "l", "a", "n">> :> L_yilan @@
  <<"h", "u", "a", "l", "i", "e", "n">> :> L_hualien @@
  <<"t", "a", "i", "t", "u", "n", "g">> :> L_taitung @@
  <<"p", "e", "n", "g", "h", "u">> :> L_penghu @@
  <<"k", "i", "n", "m", "e", "n">> :> L_kinmen @@
  <<"l", "i", "e", "n", "c", "h", "i", "a", "n", "g">> :> L_lienchiang

(* LOCATION_ALIASES is an object literal: a property read also finds the   *)
(* properties it inherits from Object.prototype, all of them truthy.       *)
ObjectPrototypeProps ==
  { <<"c", "o", "n", "s", "t", "r", "u", "c", "t", "o", "r">>,
    <<"_", "_", "d", "e", "f", "i", "n", "e", "G", "e", "t", "t", "e", "r", "_", "_">>,
    <<"_", "_", "d", "e", "f", "i", "n", "e", "S", "e", "t", "t", "e", "r", "_", "_">>,
    <<"h", "a", "s", "O", "w", "n", "P", "r", "o", "p", "e", "r", "t", "y">>,
    <<"_", "_", "l", "o", "o", "k", "u", "p", "G", "e", "t", "t", "e", "r", "_", "_">>,
    <<"_", "_", "l", "o", "o", "k", "u", "p", "S", "e", "t", "t", "e", "r", "_", "_">>,
    <<"i", "s", "P", "r", "o", "t", "o", "t", "y", "p", "e", "O", "f">>,
    <<"p", "r", "o", "p", "e", "r", "t", "y", "I", "s", "E", "n", "u", "m", "e", "r", "a", "b", "l", "e">>,
    <<"t", "o", "S", "t", "r", "i", "n", "g">>,
    <<"v", "a", "l", "u", "e", "O", "f">>,
    <<"_", "_", "p", "r", "o", "t", "o", "_", "_">>,
    <<"t", "o", "L", "o", "c", "a", "l", "e", "S", "t", "r", "i", "n", "g">> }

----------------------------------------------------------------------------
(* Location resolver, server.js lines 57-75.                               *)

CasualTai == "U+53F0"  \* 台
FormalTai == "U+81FA"  \* 臺

(* The characters String.prototype.trim removes (the ones the inputs use). *)
WhiteSpace == {" ", "\t", "\n", "\r", "U+00A0", "U+3000"}

RECURSIVE trimStart(_)
trimStart(s) ==
  IF s # <<>> /\ Head(s) \in WhiteSpace THEN trimStart(Tail(s)) ELSE s

RECURSIVE trimEnd(_)
trimEnd(s) ==
  IF s # <<>> /\ s[Len(s)] \in WhiteSpace
    THEN trimEnd(SubSeq(s, 1, Len(s) - 1))
    ELSE s

trim(s) == trimEnd(trimStart(s))

startsWith(s, c) == s # <<>> /\ Head(s) = c

(* s.slice(1) *)
slice1(s) == IF s = <<>> THEN <<>> ELSE Tail(s)

(* LOCATION_ALIASES[key] is truthy: key is an own property (every alias     *)
(* value is a non-empty string) or a property inherited from               *)
(* Object.prototype.                                                       *)
aliasTruthy(key) ==
  key \in DOMAIN LOCATION_ALIASES \/ key \in ObjectPrototypeProps

(* What LOCATION_ALIASES[key] evaluates to when it is truthy.  An inherited *)
(* property is a function or an object, not a string: it is written as a   *)
(* sequence no string equals (its first element is not a character).       *)
aliasRead(key) ==
  IF key \in DOMAIN LOCATION_ALIASES
    THEN LOCATION_ALIASES[key]
    ELSE <<"[Object.prototype]">> \o key

(* Mutant: the alias table is never consulted, only the leading character *)
(* is rewritten.                                                           *)
normalizeLocation_noAlias(input) ==
  IF input = <<>> THEN <<>>
  ELSE LET raw == trim(input)
       IN  IF startsWith(raw, CasualTai)
             THEN <<FormalTai>> \o slice1(raw)
             ELSE raw

(* Mutant: a name that is not recognised falls back to the default city    *)
(* instead of being returned as it is.                                     *)
normalizeLocation_silentDefault(input) ==
  IF input = <<>> THEN <<>>
  ELSE LET raw == trim(input)
           t   == IF startsWith(raw, CasualTai)
                    THEN <<FormalTai>> \o slice1(raw)
                    ELSE raw
       IN  IF aliasTruthy(raw) THEN aliasRead(raw)
           ELSE IF aliasTruthy(t) THEN aliasRead(t)
           ELSE IF \E i \in 1..Len(VALID_LOCATIONS) : VALID_LOCATIONS[i] = t
             THEN t
           ELSE L_kaohsiung

(* An absent input (undefined) and the empty string are both falsy and are *)
(* both written <<>>.                                                      *)
normalizeLocation(input) ==
  IF input = <<>> THEN <<>>
  ELSE LET raw == trim(input)
           t   == IF startsWith(raw, CasualTai)
                    THEN <<FormalTai>> \o slice1(raw)
                    ELSE raw
       IN  IF aliasTruthy(raw) THEN aliasRead(raw)
           ELSE IF aliasTruthy(t) THEN aliasRead(t)
           ELSE t

(* Mutant: every non-empty name is accepted. *)
isValidLocation_nonEmpty(name) == name # <<>>

(* Mutant: the name is not checked at all. *)
isValidLocation_unchecked(name) == TRUE

isValidLocation(name) ==
  \E i \in 1..Len(VALID_LOCATIONS) : VALID_LOCATIONS[i] = name

----------------------------------------------------------------------------
(* Cache, server.js lines 90-104.  The Map is a function from its keys to  *)
(* entries [expires, data]; t is the value of Date.now() at the call.      *)

CACHE_TTL_MS == 3 * 60 * 1000

(* The value JavaScript calls null. *)
null == [js |-> "null"]

(* Mutant: the expiry is never looked at. *)
getCacheResult_noExpiry(c, key, t) ==
  IF key \notin DOMAIN c THEN null ELSE c[key].data

(* Mutant: an entry counts as expired from its expiry on (>= for >). *)
getCacheResult_expiresEarly(c, key, t) ==
  IF key \notin DOMAIN c THEN null
  ELSE IF t >= c[key].expires THEN null
  ELSE c[key].data

(* What getCache(key) returns. *)
getCacheResult(c, key, t) ==
  IF key \notin DOMAIN c THEN null
  ELSE IF t > c[key].expires THEN null
  ELSE c[key].data

(* Mutant: a hit renews the entry's expiry (a sliding window). *)
getCacheMap_slidingWindow(c, key, t) ==
  IF key \in DOMAIN c /\ t > c[key].expires
    THEN [k \in DOMAIN c \ {key} |-> c[k]]
  ELSE IF key \in DOMAIN c
    THEN [c EXCEPT ![key].expires = t + CACHE_TTL_MS]
  ELSE c

(* Mutant: a lookup sweeps every expired entry out of the Map. *)
getCacheMap_sweepsAll(c, key, t) ==
  [k \in {x \in DOMAIN c : t <= c[x].expires} |-> c[k]]

(* The Map after getCache(key): an entry past its expiry is deleted. *)
getCacheMap(c, key, t) ==
  IF key \in DOMAIN c /\ t > c[key].expires
    THEN [k \in DOMAIN c \ {key} |-> c[k]]
    ELSE c

(* Mutant: overwriting an entry keeps the expiry it had. *)
setCache_keepsExpiry(c, key, data, t) ==
  [k \in DOMAIN c \cup {key} |->
     IF k = key
       THEN [expires |-> IF key \in DOMAIN c THEN c[key].expires
                                              ELSE t + CACHE_TTL_MS,
             data |-> data]
       ELSE c[k]]

(* Mutant: an entry already in the Map is kept: the first write wins. *)
setCache_firstWriteWins(c, key, data, t) ==
  IF key \in DOMAIN c THEN c
  ELSE [k \in DOMAIN c \cup {key} |->
          IF k = key THEN [expires |-> t + CACHE_TTL_MS, data |-> data]
          ELSE c[k]]

(* The Map after setCache(key, data). *)
setCache(c, key, data, t) ==
  [k \in DOMAIN c \cup {key} |->
     IF k = key THEN [expires |-> t + CACHE_TTL_MS, data |-> data] ELSE c[k]]

----------------------------------------------------------------------------
(* Forecast reshaping, server.js lines 171-223.                            *)
(*                                                                         *)
(* A location record is [locationName, weatherElement]; an element block   *)
(* is [elementName, time]; a period is [startTime, endTime, parameterName].*)
(* The code reads every one of these through ?. and || so that an absent   *)
(* weatherElement or time list behaves as the empty list and an absent     *)
(* startTime or endTime as the empty string: they are written that way.    *)
(* parameterName stands for parameter?.parameterName; undefined is the     *)
(* value of a missing parameter or a missing parameterName.                *)

undefined == <<"undefined">>

Wx    == <<"W", "x">>
PoP   == <<"P", "o", "P">>
PoP6h == <<"P", "o", "P", "6", "h">>
MinT  == <<"M", "i", "n", "T">>
MaxT  == <<"M", "a", "x", "T">>
CI    == <<"C", "I">>

PercentSign == <<"%">>
DegreesC    == <<"U+00B0", "C">>  \* °C

DefaultUpdateTime == <<"U+4E09", "U+5341", "U+516D", "U+5C0F", "U+6642", "U+5929", "U+6C23", "U+9810", "U+5831">>  \* 三十六小時天氣預報

(* lines 185-194 *)
newForecast(baseTimes, i) ==
  [ startTime |-> baseTimes[i].startTime,
    endTime   |-> baseTimes[i].endTime,
    weather   |-> <<>>,
    rain      |-> <<>>,
    minTemp   |-> <<>>,
    maxTemp   |-> <<>>,
    comfort   |-> <<>>,
    windSpeed |-> <<>> ]

(* lines 197-198: element?.time?.[i]?.parameter?.parameterName *)
paramAt(element, i) ==
  IF i <= Len(element.time) THEN element.time[i].parameterName ELSE undefined

(* val || "" *)
orEmpty(val) == IF val = undefined THEN <<>> ELSE val

(* val !== undefined && val !== "" ? `${val}<unit>` : "" *)
withUnit(val, unit) ==
  IF val # undefined /\ val # <<>> THEN val \o unit ELSE <<>>

(* lines 200-219: the switch on element.elementName *)
applyElement(forecast, element, i) ==
  LET val == paramAt(element, i)
      name == element.elementName
  IN  IF name = Wx THEN [forecast EXCEPT !.weather = orEmpty(val)]
      ELSE IF name = PoP \/ name = PoP6h
        THEN [forecast EXCEPT !.rain = withUnit(val, PercentSign)]
      ELSE IF name = MinT
        THEN [forecast EXCEPT !.minTemp = withUnit(val, DegreesC)]
      ELSE IF name = MaxT
        THEN [forecast EXCEPT !.maxTemp = withUnit(val, DegreesC)]
      ELSE IF name = CI THEN [forecast EXCEPT !.comfort = orEmpty(val)]
      ELSE forecast

(* lines 196-220: the forecast after the first j element blocks *)
RECURSIVE forecastAfter(_, _, _, _)
forecastAfter(baseTimes, weatherElements, i, j) ==
  IF j = 0 THEN newForecast(baseTimes, i)
  ELSE applyElement(forecastAfter(baseTimes, weatherElements, i, j - 1),
                    weatherElements[j], i)

(* Mutant: the first element block is the base, whatever its name. *)
baseTimesOf_firstElement(weatherElements) ==
  IF weatherElements # <<>> THEN weatherElements[1].time ELSE <<>>

(* line 180: weatherElements.find(e => e.elementName === "Wx") ||          *)
(* weatherElements[0]; a list with no element gives undefined, whose time  *)
(* list reads as empty (line 181).                                         *)
baseTimesOf(weatherElements) ==
  LET wx == {j \in 1..Len(weatherElements) : weatherElements[j].elementName = Wx}
  IN  IF wx # {}
        THEN weatherElements[CHOOSE j \in wx : \A k \in wx : j <= k].time
      ELSE IF weatherElements # <<>> THEN weatherElements[1].time
      ELSE <<>>

(* lines 171-223: weatherData *)
reshape(locationData, datasetDescription) ==
  LET weatherElements == locationData.weatherElement
      baseTimes == baseTimesOf(weatherElements)
      timeCount == Len(baseTimes)
  IN  [ city       |-> locationData.locationName,
        updateTime |-> IF datasetDescription = <<>>
                         THEN DefaultUpdateTime
                         ELSE datasetDescription,
        forecasts  |-> [i \in 1..timeCount |->
                          forecastAfter(baseTimes, weatherElements, i,
                                        Len(weatherElements))] ]

----------------------------------------------------------------------------
(* The literal strings of the responses of getWeatherByLocation.           *)

(* line 113: 伺服器設定錯誤 *)
ERR_CONFIG ==
  <<"U+4F3A", "U+670D", "U+5668", "U+8A2D", "U+5B9A", "U+932F", "U+8AA4">>

(* line 114: 請在 .env 檔案中設定 CWA_API_KEY *)
MSG_CONFIG ==
  <<"U+8ACB", "U+5728", " ", ".", "e", "n", "v", " ", "U+6A94", "U+6848",
    "U+4E2D", "U+8A2D", "U+5B9A", " ", "C", "W", "A", "_", "A", "P", "I",
    "_", "K", "E", "Y">>

(* line 119: 高雄市 *)
DEFAULT_INPUT ==
  <<"U+9AD8", "U+96C4", "U+5E02">>

(* line 126: 參數錯誤 *)
ERR_PARAM ==
  <<"U+53C3", "U+6578", "U+932F", "U+8AA4">>

(* line 127: 請提供 city 或 locationName，例如 /api/weather?city=宜蘭縣 *)
MSG_PARAM ==
  <<"U+8ACB", "U+63D0", "U+4F9B", " ", "c", "i", "t", "y", " ", "U+6216",
    " ", "l", "o", "c", "a", "t", "i", "o", "n", "N", "a", "m", "e",
    "U+FF0C", "U+4F8B", "U+5982", " ", "/", "a", "p", "i", "/", "w", "e",
    "a", "t", "h", "e", "r", "?", "c", "i", "t", "y", "=", "U+5B9C",
    "U+862D", "U+7E23">>

(* line 134: 地區不支援 *)
ERR_UNSUPPORTED ==
  <<"U+5730", "U+5340", "U+4E0D", "U+652F", "U+63F4">>

(* line 135: 不支援的地區： *)
MSG_UNSUPPORTED ==
  <<"U+4E0D", "U+652F", "U+63F4", "U+7684", "U+5730", "U+5340", "U+FF1A">>

(* line 137: 請使用 /api/locations 取得可用地區清單 *)
TIP_UNSUPPORTED ==
  <<"U+8ACB", "U+4F7F", "U+7528", " ", "/", "a", "p", "i", "/", "l", "o",
    "c", "a", "t", "i", "o", "n", "s", " ", "U+53D6", "U+5F97", "U+53EF",
    "U+7528", "U+5730", "U+5340", "U+6E05", "U+55AE">>

(* line 166: 查無資料 *)
ERR_NO_DATA ==
  <<"U+67E5", "U+7121", "U+8CC7", "U+6599">>

(* line 167: 無法取得  *)
MSG_NO_DATA_HEAD ==
  <<"U+7121", "U+6CD5", "U+53D6", "U+5F97", " ">>

(* line 167:  天氣資料 *)
MSG_NO_DATA_TAIL ==
  <<" ", "U+5929", "U+6C23", "U+8CC7", "U+6599">>

(* line 237: CWA API 錯誤 *)
ERR_CWA ==
  <<"C", "W", "A", " ", "A", "P", "I", " ", "U+932F", "U+8AA4">>

(* line 238: 無法取得天氣資料 *)
MSG_CWA_DEFAULT ==
  <<"U+7121", "U+6CD5", "U+53D6", "U+5F97", "U+5929", "U+6C23", "U+8CC7",
    "U+6599">>

(* line 245: 伺服器錯誤 *)
ERR_SERVER ==
  <<"U+4F3A", "U+670D", "U+5668", "U+932F", "U+8AA4">>

(* line 246: 無法取得天氣資料，請稍後再試 *)
MSG_SERVER ==
  <<"U+7121", "U+6CD5", "U+53D6", "U+5F97", "U+5929", "U+6C23", "U+8CC7",
    "U+6599", "U+FF0C", "U+8ACB", "U+7A0D", "U+5F8C", "U+518D", "U+8A66">>

----------------------------------------------------------------------------
(* Bounds of the model.                                                    *)

NumRequests == 2        \* weather requests in one behaviour
MaxTicks == 2           \* clock advances in one behaviour of the server
MaxCacheTicks == 3      \* clock advances in one behaviour of the cache alone
MaxInputLen == 3        \* length of the enumerated resolver inputs
MaxElements == 2        \* element blocks of an enumerated location record
MaxPeriodsTotal == 3    \* periods of an enumerated location record, all blocks

----------------------------------------------------------------------------
(* State.                                                                  *)

VARIABLES
  apiKey,      \* CWA_API_KEY (line 11); <<>> when the environment has none
  now,         \* Date.now(), in milliseconds since the process started
  ticks,       \* number of clock advances so far
  cache,       \* the Map of line 91
  reqs,        \* the weather requests: where each one is, and its response
  lastWrite,   \* history: for each key, the last setCache: by whom and when
  cacheLog,    \* history of the bare cache operations (SpecCache)
  resolver,    \* a call of normalizeLocation / isValidLocation (SpecResolver)
  xf           \* a run of the reshaping loop (SpecTransform)

vars == <<apiKey, now, ticks, cache, reqs, lastWrite, cacheLog, resolver, xf>>

Requests == 1..NumRequests

----------------------------------------------------------------------------
(* Routes, server.js lines 281-291.  A request is [path, city,             *)
(* locationName]: the path segments and the two query parameters the       *)
(* handler reads (<<>> when absent).  Express tries the routes in the      *)
(* order they were registered and runs the first that matches.             *)

SegApi == <<"a", "p", "i">>
SegWeather == <<"w", "e", "a", "t", "h", "e", "r">>
SegKaohsiung == <<"k", "a", "o", "h", "s", "i", "u", "n", "g">>

(* line 282: "/api/weather" *)
matchesWeather(path) == path = <<SegApi, SegWeather>>

(* line 285: "/api/weather/:city" *)
matchesWeatherCity(path) ==
  /\ Len(path) = 3
  /\ path[1] = SegApi
  /\ path[2] = SegWeather
  /\ path[3] # <<>>

(* line 288: "/api/weather/kaohsiung" *)
matchesLegacy(path) == path = <<SegApi, SegWeather, SegKaohsiung>>

(* The req object the handler receives: query and params. *)
dispatch(h) ==
  IF matchesWeather(h.path)
    THEN [query |-> [city |-> h.city, locationName |-> h.locationName],
          params |-> [city |-> <<>>]]
  ELSE IF matchesWeatherCity(h.path)
    THEN [query |-> [city |-> h.city, locationName |-> h.locationName],
          params |-> [city |-> h.path[3]]]
  ELSE IF matchesLegacy(h.path)
    THEN \* lines 289-290: req.query.city = "高雄市"
         [query |-> [city |-> L_kaohsiung, locationName |-> h.locationName],
          params |-> [city |-> <<>>]]
  ELSE null

----------------------------------------------------------------------------
(* getWeatherByLocation, server.js lines 108-249, in two steps: up to the  *)
(* await of line 149, and from the upstream's answer to the response.      *)

(* line 119; req.params.location is never set by a route *)
requestInput(req) ==
  IF req.query.city # <<>> THEN req.query.city
  ELSE IF req.query.locationName # <<>> THEN req.query.locationName
  ELSE IF req.params.city # <<>> THEN req.params.city
  ELSE DEFAULT_INPUT

(* Mutant: the API key is checked after the input, not before it. *)
handlerStart_keyCheckedLate(c, t, key, req) ==
  LET input == requestInput(req)
      locationName == normalizeLocation(input)
      cached == getCacheResult(c, locationName, t)
  IN  IF locationName = <<>>
        THEN [cache |-> c, locationName |-> locationName, calls |-> 0,
              status |-> 400,
              body |-> [success |-> FALSE, error |-> ERR_PARAM,
                        message |-> MSG_PARAM]]
      ELSE IF ~isValidLocation(locationName)
        THEN [cache |-> c, locationName |-> locationName, calls |-> 0,
              status |-> 400,
              body |-> [success |-> FALSE, error |-> ERR_UNSUPPORTED,
                        message |-> MSG_UNSUPPORTED \o locationName,
                        allowed |-> VALID_LOCATIONS,
                        tip |-> TIP_UNSUPPORTED]]
      ELSE IF key = <<>>
        THEN [cache |-> c, locationName |-> <<>>, calls |-> 0, status |-> 500,
              body |-> [success |-> FALSE, error |-> ERR_CONFIG,
                        message |-> MSG_CONFIG]]
      ELSE IF cached # null
        THEN [cache |-> getCacheMap(c, locationName, t),
              locationName |-> locationName, calls |-> 0, status |-> 200,
              body |-> [success |-> TRUE, data |-> cached, cached |-> TRUE]]
      ELSE [cache |-> getCacheMap(c, locationName, t),
            locationName |-> locationName, calls |-> 1, status |-> 0,
            body |-> null]

(* lines 110-145.  The result: the Map afterwards, the locationName, the   *)
(* number of upstream calls issued, and the response (status 0: none yet,  *)
(* the handler is suspended at the await).                                 *)
handlerStart(c, t, key, req) ==
  LET input == requestInput(req)
      locationName == normalizeLocation(input)
      cached == getCacheResult(c, locationName, t)
  IN  IF key = <<>>
        THEN [cache |-> c, locationName |-> <<>>, calls |-> 0, status |-> 500,
              body |-> [success |-> FALSE, error |-> ERR_CONFIG,
                        message |-> MSG_CONFIG]]
      ELSE IF locationName = <<>>
        THEN [cache |-> c, locationName |-> locationName, calls |-> 0,
              status |-> 400,
              body |-> [success |-> FALSE, error |-> ERR_PARAM,
                        message |-> MSG_PARAM]]
      ELSE IF ~isValidLocation(locationName)
        THEN [cache |-> c, locationName |-> locationName, calls |-> 0,
              status |-> 400,
              body |-> [success |-> FALSE, error |-> ERR_UNSUPPORTED,
                        message |-> MSG_UNSUPPORTED \o locationName,
                        allowed |-> VALID_LOCATIONS,
                        tip |-> TIP_UNSUPPORTED]]
      ELSE IF cached # null
        THEN [cache |-> getCacheMap(c, locationName, t),
              locationName |-> locationName, calls |-> 0, status |-> 200,
              body |-> [success |-> TRUE, data |-> cached, cached |-> TRUE]]
      ELSE [cache |-> getCacheMap(c, locationName, t),
            locationName |-> locationName, calls |-> 1, status |-> 0,
            body |-> null]

(* What axios.get ends with (lines 149-158): a 2xx response carrying        *)
(* response.data.records (an absent records or location list reads as the  *)
(* empty list, lines 78 and 160), a non-2xx response (error.response), or  *)
(* no response at all (network failure, timeout).                          *)
upstreamOk(datasetDescription, location) ==
  [kind |-> "response",
   records |-> [datasetDescription |-> datasetDescription,
                location |-> location]]

upstreamHttpError(status, message) ==
  [kind |-> "httpError", status |-> status, data |-> [message |-> message]]

(* error.message of the Error axios rejects with when the 10000 ms of line   *)
(* 157 pass without a response.                                            *)
TimeoutMessage ==
  <<"t", "i", "m", "e", "o", "u", "t", " ", "o", "f", " ", "1", "0", "0",
    "0", "0", "m", "s", " ", "e", "x", "c", "e", "e", "d", "e", "d">>

upstreamNoResponse == [kind |-> "noResponse", message |-> TimeoutMessage]

(* line 78 *)
pickFirstLocation(records) ==
  IF records.location # <<>> THEN records.location[1] ELSE null

(* Mutant: the upstream's status is dropped. *)
upstreamErrorStatus_always500(answer) == 500

(* line 235: error.response.status *)
upstreamErrorStatus(answer) == answer.status

(* Mutant: the body of an upstream error response is cached as well. *)
handlerResume_cachesErrors(c, t, locationName, answer) ==
  IF answer.kind = "response"
    THEN LET locationData == pickFirstLocation(answer.records)
             weatherData ==
               reshape(locationData, answer.records.datasetDescription)
         IN  IF locationData = null
               THEN [cache |-> c, wrote |-> FALSE, status |-> 404,
                     body |-> [success |-> FALSE, error |-> ERR_NO_DATA,
                               message |-> MSG_NO_DATA_HEAD \o locationName
                                             \o MSG_NO_DATA_TAIL]]
               ELSE [cache |-> setCache(c, locationName, weatherData, t),
                     wrote |-> TRUE, status |-> 200,
                     body |-> [success |-> TRUE, data |-> weatherData]]
  ELSE IF answer.kind = "httpError"
    THEN [cache |-> setCache(c, locationName, answer.data, t),
          wrote |-> TRUE,
          status |-> upstreamErrorStatus(answer),
          body |-> [success |-> FALSE, error |-> ERR_CWA,
                    message |-> IF answer.data.message # <<>>
                                  THEN answer.data.message
                                  ELSE MSG_CWA_DEFAULT,
                    details |-> answer.data]]
  ELSE [cache |-> c, wrote |-> FALSE, status |-> 500,
        body |-> [success |-> FALSE, error |-> ERR_SERVER,
                  message |-> MSG_SERVER]]

(* lines 160-248.  The result: the Map afterwards, wrote (setCache ran)    *)
(* and the response.                                                       *)
handlerResume(c, t, locationName, answer) ==
  IF answer.kind = "response"
    THEN LET locationData == pickFirstLocation(answer.records)
             weatherData ==
               reshape(locationData, answer.records.datasetDescription)
         IN  IF locationData = null
               THEN [cache |-> c, wrote |-> FALSE, status |-> 404,
                     body |-> [success |-> FALSE, error |-> ERR_NO_DATA,
                               message |-> MSG_NO_DATA_HEAD \o locationName
                                             \o MSG_NO_DATA_TAIL]]
               ELSE [cache |-> setCache(c, locationName, weatherData, t),
                     wrote |-> TRUE, status |-> 200,
                     body |-> [success |-> TRUE, data |-> weatherData]]
  ELSE IF answer.kind = "httpError"
    THEN [cache |-> c, wrote |-> FALSE,
          status |-> upstreamErrorStatus(answer),
          body |-> [success |-> FALSE, error |-> ERR_CWA,
                    message |-> IF answer.data.message # <<>>
                                  THEN answer.data.message
                                  ELSE MSG_CWA_DEFAULT,
                    details |-> answer.data]]
  ELSE [cache |-> c, wrote |-> FALSE, status |-> 500,
        body |-> [success |-> FALSE, error |-> ERR_SERVER,
                  message |-> MSG_SERVER]]

----------------------------------------------------------------------------
(* The inputs of the model.                                                *)

Mars == <<"U+706B", "U+661F">>  \* 火星, the unsupported name of the spec
CasualTaipei == <<CasualTai, "U+5317", "U+5E02">>  \* 台北市
Slug_taipei == <<"t", "a", "i", "p", "e", "i">>

httpGet(path, city, locationName) ==
  [path |-> path, city |-> city, locationName |-> locationName]

(* The weather requests the clients send: a slug, no location at all, the  *)
(* fixed path, an unsupported name and a blank one.  RoutedRequests, below, *)
(* combines the paths with both query parameters.                          *)
HttpRequests ==
  { httpGet(<<SegApi, SegWeather>>, Slug_taipei, <<>>),
    httpGet(<<SegApi, SegWeather>>, <<>>, <<>>),
    httpGet(<<SegApi, SegWeather, SegKaohsiung>>, <<>>, <<>>),
    httpGet(<<SegApi, SegWeather>>, Mars, <<>>),
    httpGet(<<SegApi, SegWeather>>, <<" ">>, <<>>) }

T0600 == <<"0", "6", ":", "0", "0">>
T1800 == <<"1", "8", ":", "0", "0">>
T3000 == <<"3", "0", ":", "0", "0">>

period(startTime, endTime, parameterName) ==
  [startTime |-> startTime, endTime |-> endTime,
   parameterName |-> parameterName]

(* A period with a value, one whose parameter is missing, and one with     *)
(* neither times nor a value.                                              *)
PeriodSet ==
  { period(T0600, T1800, <<"6", "0">>),
    period(T1800, T3000, undefined),
    period(<<>>, <<>>, <<>>) }

ElementNames == {Wx, PoP, PoP6h, MinT, MaxT, CI, <<"W", "S">>}

elementBlock(elementName, time) ==
  [elementName |-> elementName, time |-> time]

locationRecord(locationName, weatherElement) ==
  [locationName |-> locationName, weatherElement |-> weatherElement]

(* The number of periods of a list of element blocks, all blocks. *)
RECURSIVE periodCount(_)
periodCount(weatherElement) ==
  IF weatherElement = <<>> THEN 0
  ELSE Len(Head(weatherElement).time) + periodCount(Tail(weatherElement))

(* The answers of the upstream to a query for locationName. *)
SunnyDay(locationName) ==
  locationRecord(locationName,
    << elementBlock(Wx, <<period(T0600, T1800, <<"U+6674">>)>>) >>)  \* 晴

RainyDay(locationName) ==
  locationRecord(locationName,
    << elementBlock(PoP, <<period(T0600, T1800, <<"6", "0">>),
                           period(T1800, T3000, undefined)>>),
       elementBlock(Wx, <<period(T0600, T1800, <<"U+96E8">>),      \* 雨
                          period(T1800, T3000, <<"U+9670">>)>>) >>) \* 陰

UpstreamAnswers(locationName) ==
  { upstreamOk(<<>>, <<SunnyDay(locationName)>>),
    upstreamOk(<<"3", "6", "h">>, <<RainyDay(locationName)>>),
    upstreamOk(<<>>, <<>>),
    upstreamHttpError(503, <<"b", "u", "s", "y">>),
    upstreamNoResponse }

(* The characters of the enumerated resolver inputs. *)
ResolverAlphabet == {" ", CasualTai, FormalTai, "U+5317", "U+5E02", "x"}

RECURSIVE StringsUpTo(_)
StringsUpTo(n) ==
  IF n = 0 THEN {<<>>}
  ELSE LET shorter == StringsUpTo(n - 1)
       IN  shorter \cup {<<c>> \o s : c \in ResolverAlphabet,
                                      s \in {x \in shorter : Len(x) = n - 1}}

Padded(s) == {s, <<" ">> \o s, s \o <<" ">>, <<"U+3000">> \o s \o <<"\t">>}

CanonicalNames == {VALID_LOCATIONS[i] : i \in 1..Len(VALID_LOCATIONS)}

ResolverInputs ==
  StringsUpTo(MaxInputLen)
    \cup UNION {Padded(s) : s \in DOMAIN LOCATION_ALIASES \cup CanonicalNames}
    \cup ObjectPrototypeProps
    \cup {Mars}

CacheKeys == {L_taipei, L_kaohsiung}

CacheValues ==
  { reshape(SunnyDay(L_taipei), <<>>), reshape(RainyDay(L_taipei), <<>>) }

----------------------------------------------------------------------------
(* Initial states.                                                         *)

EmptyMap == [k \in {} |-> null]

ApiKey == <<"C", "W", "A", "-", "K", "E", "Y">>

NewRequest ==
  [pc |-> "new", http |-> null, locationName |-> <<>>, calls |-> 0,
   status |-> 0, body |-> null,
   \* history, taken when the request arrives: the requests answered by
   \* then, the request whose setCache of this key came last (0: none) and
   \* whether that was at most CACHE_TTL_MS ago; and, at the end, how the
   \* upstream call ended and whether this request called setCache
   after |-> {}, sawWriter |-> 0, sawFresh |-> FALSE,
   answer |-> null, wrote |-> FALSE]

IdleCacheLog == [lastGet |-> null, lastSet |-> EmptyMap, expired |-> EmptyMap]
IdleResolver == [pc |-> "idle"]
IdleTransform == [pc |-> "idle"]

(* The server after start-up: the clock is counted from that moment. *)
InitServer ==
  /\ now = 0
  /\ ticks = 0
  /\ cache = EmptyMap
  /\ reqs = [r \in Requests |-> NewRequest]
  /\ lastWrite = EmptyMap

Init ==
  /\ apiKey \in {<<>>, ApiKey}
  /\ InitServer
  /\ cacheLog = IdleCacheLog
  /\ resolver = IdleResolver
  /\ xf = IdleTransform

----------------------------------------------------------------------------
(* The clock.                                                              *)

TickSteps == {1, CACHE_TTL_MS}

Advance(d, limit) ==
  /\ ticks < limit
  /\ now' = now + d
  /\ ticks' = ticks + 1
  /\ UNCHANGED <<apiKey, cache, reqs, lastWrite, cacheLog, resolver, xf>>

Tick(d) == Advance(d, MaxTicks)

----------------------------------------------------------------------------
(* A weather request.                                                      *)

(* A request arrives and the handler runs to its response or to the await. *)
(* Requests are numbered in the order they arrive.                         *)
StartRequest(r, h) ==
  /\ reqs[r].pc = "new"
  /\ \A q \in Requests : q < r => reqs[q].pc # "new"
  /\ LET out == handlerStart(cache, now, apiKey, dispatch(h))
     IN  /\ cache' = out.cache
         /\ reqs' = [reqs EXCEPT ![r] =
               [pc |-> IF out.status = 0 THEN "awaiting" ELSE "done",
                http |-> h,
                locationName |-> out.locationName,
                calls |-> out.calls,
                status |-> out.status,
                body |-> out.body,
                after |-> {q \in Requests : reqs[q].pc = "done"},
                sawWriter |-> IF out.locationName \in DOMAIN lastWrite
                                THEN lastWrite[out.locationName].by ELSE 0,
                sawFresh |-> /\ out.locationName \in DOMAIN lastWrite
                             /\ now <= lastWrite[out.locationName].at
                                         + CACHE_TTL_MS,
                answer |-> null,
                wrote |-> FALSE]]
  /\ UNCHANGED <<apiKey, now, ticks, lastWrite, cacheLog, resolver, xf>>

(* Mutant: an upstream call that ends without a response brings the        *)
(* process down, and the other suspended requests are never answered.      *)
CompleteRequest_crashOnFailure(r, answer) ==
  /\ reqs[r].pc = "awaiting"
  /\ LET out == handlerResume(cache, now, reqs[r].locationName, answer)
     IN  /\ cache' = out.cache
         /\ reqs' = [q \in Requests |->
               IF q = r
                 THEN [reqs[r] EXCEPT !.pc = "done",
                                      !.status = out.status,
                                      !.body = out.body,
                                      !.answer = answer,
                                      !.wrote = out.wrote]
               ELSE IF answer.kind = "noResponse" /\ reqs[q].pc = "awaiting"
                 THEN [reqs[q] EXCEPT !.pc = "lost"]
               ELSE reqs[q]]
         /\ lastWrite' =
              IF out.wrote
                THEN [k \in DOMAIN lastWrite \cup {reqs[r].locationName} |->
                        IF k = reqs[r].locationName
                          THEN [by |-> r, at |-> now]
                          ELSE lastWrite[k]]
                ELSE lastWrite
  /\ UNCHANGED <<apiKey, now, ticks, cacheLog, resolver, xf>>

(* The upstream call of a suspended request ends and the handler resumes. *)
CompleteRequest(r, answer) ==
  /\ reqs[r].pc = "awaiting"
  /\ LET out == handlerResume(cache, now, reqs[r].locationName, answer)
     IN  /\ cache' = out.cache
         /\ reqs' = [reqs EXCEPT ![r].pc = "done",
                                 ![r].status = out.status,
                                 ![r].body = out.body,
                                 ![r].answer = answer,
                                 ![r].wrote = out.wrote]
         /\ lastWrite' =
              IF out.wrote
                THEN [k \in DOMAIN lastWrite \cup {reqs[r].locationName} |->
                        IF k = reqs[r].locationName
                          THEN [by |-> r, at |-> now]
                          ELSE lastWrite[k]]
                ELSE lastWrite
  /\ UNCHANGED <<apiKey, now, ticks, cacheLog, resolver, xf>>

Next ==
  \/ \E d \in TickSteps : Tick(d)
  \/ \E r \in Requests, h \in HttpRequests : StartRequest(r, h)
  \/ \E r \in Requests :
       \E answer \in UpstreamAnswers(reqs[r].locationName) :
         CompleteRequest(r, answer)

Spec == Init /\ [][Next]_vars

(* The upstream call of a suspended request ends, one way or another. *)
UpstreamReturns(r) ==
  \E answer \in UpstreamAnswers(reqs[r].locationName) :
    CompleteRequest(r, answer)

(* The requests and their upstream calls at one instant of the clock: no   *)
(* step of the handler waits for the clock.  Every upstream call ends:     *)
(* axios.get settles with a response or, after the timeout of line 157 at  *)
(* the latest, with an error, and the event loop then resumes the handler. *)
NextServe ==
  \/ \E r \in Requests, h \in HttpRequests : StartRequest(r, h)
  \/ \E r \in Requests : UpstreamReturns(r)

FairSpec ==
  /\ Init
  /\ [][NextServe]_vars
  /\ \A r \in Requests : WF_vars(UpstreamReturns(r))

----------------------------------------------------------------------------
(* The cache alone: any sequence of setCache, getCache and clock advances. *)

InitCache ==
  /\ apiKey = ApiKey
  /\ InitServer
  /\ cacheLog = IdleCacheLog
  /\ resolver = IdleResolver
  /\ xf = IdleTransform

CacheSet(k, v) ==
  /\ cache' = setCache(cache, k, v, now)
  /\ cacheLog' = [cacheLog EXCEPT
       !.lastSet = [x \in DOMAIN cacheLog.lastSet \cup {k} |->
                      IF x = k THEN [at |-> now, data |-> v]
                      ELSE cacheLog.lastSet[x]]]
  /\ UNCHANGED <<apiKey, now, ticks, reqs, lastWrite, resolver, xf>>

(* cacheLog.lastGet records the call: the entry the Map held before it     *)
(* (before), the last setCache of the key (since), what the call returned  *)
(* and whether the Map holds the key after it.                             *)
CacheGet(k) ==
  /\ cache' = getCacheMap(cache, k, now)
  /\ cacheLog' = [cacheLog EXCEPT
       !.lastGet = [key |-> k, at |-> now,
                    before |-> IF k \in DOMAIN cache THEN cache[k] ELSE null,
                    since |-> IF k \in DOMAIN cacheLog.lastSet
                                THEN cacheLog.lastSet[k] ELSE null,
                    result |-> getCacheResult(cache, k, now),
                    present |-> k \in DOMAIN cache'],
       !.expired = IF k \in DOMAIN cache /\ k \notin DOMAIN cache'
                     THEN [x \in DOMAIN cacheLog.expired \cup {k} |->
                             IF x = k THEN cache[k].data
                             ELSE cacheLog.expired[x]]
                     ELSE cacheLog.expired]
  /\ UNCHANGED <<apiKey, now, ticks, reqs, lastWrite, resolver, xf>>

CacheTick(d) == Advance(d, MaxCacheTicks)

NextCache ==
  \/ \E d \in TickSteps : CacheTick(d)
  \/ \E k \in CacheKeys, v \in CacheValues : CacheSet(k, v)
  \/ \E k \in CacheKeys : CacheGet(k)

SpecCache == InitCache /\ [][NextCache]_vars

----------------------------------------------------------------------------
(* The resolver alone: normalizeLocation and isValidLocation on an input.  *)

InitResolver ==
  /\ apiKey = ApiKey
  /\ InitServer
  /\ cacheLog = IdleCacheLog
  /\ resolver \in {[pc |-> "call", input |-> i] : i \in ResolverInputs}
  /\ xf = IdleTransform

Resolve ==
  /\ resolver.pc = "call"
  /\ resolver' =
       [pc |-> "return", input |-> resolver.input,
        output |-> normalizeLocation(resolver.input),
        valid |-> isValidLocation(normalizeLocation(resolver.input))]
  /\ UNCHANGED <<apiKey, now, ticks, cache, reqs, lastWrite, cacheLog, xf>>

(* The output is resolved once more. *)
ResolveAgain ==
  /\ resolver.pc = "return"
  /\ resolver' =
       [pc |-> "again", input |-> resolver.input,
        output |-> resolver.output, valid |-> resolver.valid,
        again |-> normalizeLocation(resolver.output)]
  /\ UNCHANGED <<apiKey, now, ticks, cache, reqs, lastWrite, cacheLog, xf>>

NextResolver == Resolve \/ ResolveAgain

SpecResolver == InitResolver /\ [][NextResolver]_vars

----------------------------------------------------------------------------
(* The reshaping loop alone, on any location record of at most             *)
(* MaxElements element blocks and MaxPeriodsTotal periods.                 *)

InitTransform ==
  /\ apiKey = ApiKey
  /\ InitServer
  /\ cacheLog = IdleCacheLog
  /\ resolver = IdleResolver
  /\ xf = [pc |-> "receive", locationData |-> locationRecord(L_taipei, <<>>)]

(* The location record is read from the payload: one more element block. *)
ReceiveElement(name) ==
  /\ xf.pc = "receive"
  /\ Len(xf.locationData.weatherElement) < MaxElements
  /\ xf' = [xf EXCEPT !.locationData.weatherElement =
                        Append(@, elementBlock(name, <<>>))]
  /\ UNCHANGED <<apiKey, now, ticks, cache, reqs, lastWrite, cacheLog,
                 resolver>>

(* One more period of the last element block. *)
ReceivePeriod(p) ==
  /\ xf.pc = "receive"
  /\ xf.locationData.weatherElement # <<>>
  /\ periodCount(xf.locationData.weatherElement) < MaxPeriodsTotal
  /\ LET last == Len(xf.locationData.weatherElement)
     IN  xf' = [xf EXCEPT !.locationData.weatherElement[last].time =
                            Append(@, p)]
  /\ UNCHANGED <<apiKey, now, ticks, cache, reqs, lastWrite, cacheLog,
                 resolver>>

(* The record, as far as it was read, is reshaped. *)
Reshape ==
  /\ xf.pc = "receive"
  /\ xf' = [pc |-> "return", locationData |-> xf.locationData,
            weatherData |-> reshape(xf.locationData, <<>>)]
  /\ UNCHANGED <<apiKey, now, ticks, cache, reqs, lastWrite, cacheLog,
                 resolver>>

NextTransform ==
  \/ \E name \in ElementNames : ReceiveElement(name)
  \/ \E p \in PeriodSet : ReceivePeriod(p)
  \/ Reshape

SpecTransform == InitTransform /\ [][NextTransform]_vars

----------------------------------------------------------------------------
(* Properties of the resolver, checked under SpecResolver.                 *)

(* The precondition of C4 on a string: it is no key of the alias table,    *)
(* does not start with the casual character and is no canonical name.      *)
Unrecognised(str) ==
  /\ str \notin DOMAIN LOCATION_ALIASES
  /\ ~startsWith(str, CasualTai)
  /\ str \notin CanonicalNames

(* C4, as stated: every input that is no alias key, does not start with    *)
(* the casual character and is no canonical name resolves to a name that   *)
(* isValidLocation rejects, inputs with surrounding whitespace included.   *)
C4_UnrecognisedInputIsInvalid ==
  resolver.pc \in {"return", "again"} =>
    (Unrecognised(resolver.input) => ~resolver.valid)

(* C4, amended: every input whose trimmed form is no alias key, does not   *)
(* start with the casual character and is no canonical name resolves to a  *)
(* name that isValidLocation rejects.                                      *)
C4_UnrecognisedTrimmedInputIsInvalid ==
  resolver.pc \in {"return", "again"} =>
    (Unrecognised(trim(resolver.input)) => ~resolver.valid)

(* An input with surrounding whitespace whose trimmed form is not          *)
(* recognised has been resolved and rejected.                              *)
C4_Witness ==
  /\ resolver.pc = "return"
  /\ resolver.input # trim(resolver.input)
  /\ trim(resolver.input) # <<>>
  /\ Unrecognised(trim(resolver.input))
  /\ ~resolver.valid

(* C5: normalizeLocation maps every alias key to its canonical value and   *)
(* every canonical name to itself, resolving the result once more changes  *)
(* nothing, and 台北市 and 臺北市 both resolve to 臺北市.                  *)
C5_AliasesAndCanonicalNamesResolve ==
  resolver.pc \in {"return", "again"} =>
    LET i == resolver.input
    IN  /\ i \in DOMAIN LOCATION_ALIASES =>
             resolver.output = LOCATION_ALIASES[i]
        /\ i \in CanonicalNames => resolver.output = i
        /\ (resolver.pc = "again"
              /\ i \in DOMAIN LOCATION_ALIASES \cup CanonicalNames) =>
             resolver.again = resolver.output
        /\ i \in {CasualTaipei, L_taipei} => resolver.output = L_taipei

(* 台北市 has been resolved, and its result resolved once more. *)
C5_Witness ==
  /\ resolver.pc = "again"
  /\ resolver.input = CasualTaipei
  /\ resolver.output = L_taipei
  /\ resolver.again = L_taipei

----------------------------------------------------------------------------
(* Properties of the reshaping loop, checked under SpecTransform.          *)

(* The forecasts have one entry for each period of the list times, with    *)
(* that period's startTime and endTime, in the same order.                 *)
FollowsTimes(forecasts, times) ==
  /\ Len(forecasts) = Len(times)
  /\ \A i \in 1..Len(times) :
       /\ forecasts[i].startTime = times[i].startTime
       /\ forecasts[i].endTime = times[i].endTime

(* C8: the forecast sequence has exactly one entry for each period of the  *)
(* time list of the element named Wx if there is one, otherwise of the     *)
(* first element block (none when there is no element block or the list is *)
(* empty), and entry i carries the startTime and endTime of period i.      *)
C8_ForecastsFollowAuthoritativeTimes ==
  xf.pc = "return" =>
    LET w == xf.locationData.weatherElement
        forecasts == xf.weatherData.forecasts
        wx == {j \in 1..Len(w) : w[j].elementName = Wx}
    IN  IF wx # {} THEN \E j \in wx : FollowsTimes(forecasts, w[j].time)
        ELSE IF w # <<>> THEN FollowsTimes(forecasts, w[1].time)
        ELSE forecasts = <<>>

(* A record whose Wx block comes second and has two periods, after a block *)
(* with fewer, has been reshaped into two forecasts.                       *)
C8_Witness ==
  /\ xf.pc = "return"
  /\ Len(xf.locationData.weatherElement) = 2
  /\ xf.locationData.weatherElement[1].elementName # Wx
  /\ xf.locationData.weatherElement[2].elementName = Wx
  /\ Len(xf.locationData.weatherElement[1].time) = 1
  /\ Len(xf.locationData.weatherElement[2].time) = 2
  /\ Len(xf.weatherData.forecasts) = 2
  /\ xf.weatherData.forecasts[2].startTime = T1800

(* The field of a forecast an element kind is written to. *)
FieldOf(elementName) ==
  IF elementName = Wx THEN "weather"
  ELSE IF elementName \in {PoP, PoP6h} THEN "rain"
  ELSE IF elementName = MinT THEN "minTemp"
  ELSE IF elementName = MaxT THEN "maxTemp"
  ELSE IF elementName = CI THEN "comfort"
  ELSE "none"

(* The value C9 gives a field for a present, non-empty parameter value. *)
Tagged(elementName, v) ==
  IF elementName \in {PoP, PoP6h} THEN v \o PercentSign
  ELSE IF elementName \in {MinT, MaxT} THEN v \o DegreesC
  ELSE v

ContentFields == {"weather", "rain", "minTemp", "maxTemp", "comfort", "windSpeed"}

(* C9: at every period index, every element block with a present,          *)
(* non-empty parameter value v sets its field to v (Wx, CI), v% (PoP,      *)
(* PoP6h) or v°C (MinT, MaxT); a block whose parameter is missing or empty, *)
(* or that has no period at the index, leaves its field as it was (the     *)
(* empty default, or the value already written to it); no block changes    *)
(* another field, a block of another kind changes none, and no field is a  *)
(* bare unit.                                                              *)
C9_BlocksTagTheirFieldOnly ==
  xf.pc = "return" =>
    LET w == xf.locationData.weatherElement
        baseTimes == baseTimesOf(w)
    IN  \A i \in 1..Len(baseTimes) :
          /\ xf.weatherData.forecasts[i] =
               forecastAfter(baseTimes, w, i, Len(w))
          /\ \A j \in 1..Len(w) :
               LET before == forecastAfter(baseTimes, w, i, j - 1)
                   after == forecastAfter(baseTimes, w, i, j)
                   v == paramAt(w[j], i)
                   field == FieldOf(w[j].elementName)
               IN  /\ \A g \in ContentFields \ {field} : after[g] = before[g]
                   /\ after.startTime = before.startTime
                   /\ after.endTime = before.endTime
                   /\ field # "none" =>
                        IF v # undefined /\ v # <<>>
                          THEN after[field] = Tagged(w[j].elementName, v)
                          ELSE after[field] = before[field]
                   /\ \A g \in ContentFields :
                        after[g] \notin {PercentSign, DegreesC}

----------------------------------------------------------------------------
(* Properties of the cache, checked under SpecCache.                       *)

(* C2: getCache never returns a value whose expiry (insertion time plus 3  *)
(* minutes) is before the current time, and when the stored entry's expiry *)
(* is before the current time the call removes the entry and returns       *)
(* absent.                                                                 *)
C2_NoEntryReturnedPastExpiry ==
  cacheLog.lastGet # null =>
    LET g == cacheLog.lastGet
    IN  /\ g.before # null =>
             /\ g.since # null
             /\ g.before.expires = g.since.at + CACHE_TTL_MS
        /\ g.result # null =>
             /\ g.before # null
             /\ g.before.expires >= g.at
             /\ g.result = g.before.data
        /\ (g.before # null /\ g.before.expires < g.at) =>
             /\ g.result = null
             /\ ~g.present

(* A getCache has found an entry past its expiry, removed it and returned  *)
(* absent.                                                                 *)
C2_Witness ==
  /\ cacheLog.lastGet # null
  /\ cacheLog.lastGet.before # null
  /\ cacheLog.lastGet.before.expires < cacheLog.lastGet.at
  /\ cacheLog.lastGet.result = null
  /\ cacheLog.lastGet.key \notin DOMAIN cache

(* C10: getCache(k) returns the value of the last setCache(k, v) unchanged *)
(* when at most 3 minutes have passed since it, whatever happened to other *)
(* keys and whatever k held before, and absent when more have passed or k  *)
(* was never set.                                                          *)
C10_GetReturnsLastSetWithinTtl ==
  cacheLog.lastGet # null =>
    LET g == cacheLog.lastGet
    IN  IF g.since = null THEN g.result = null
        ELSE IF g.at <= g.since.at + CACHE_TTL_MS
          THEN g.result = g.since.data
        ELSE g.result = null

(* A key whose entry expired and was found absent has been set again to    *)
(* another value, and getCache returns that value exactly 3 minutes after  *)
(* the second setCache, while the Map also holds another key.              *)
C10_Witness ==
  /\ cacheLog.lastGet # null
  /\ cacheLog.lastGet.key \in DOMAIN cacheLog.expired
  /\ cacheLog.lastGet.since # null
  /\ cacheLog.lastGet.at = cacheLog.lastGet.since.at + CACHE_TTL_MS
  /\ cacheLog.lastGet.result # null
  /\ cacheLog.lastGet.result # cacheLog.expired[cacheLog.lastGet.key]
  /\ \E k \in DOMAIN cache : k # cacheLog.lastGet.key

----------------------------------------------------------------------------
(* The routes alone: the server receiving every combination of weather     *)
(* path and query parameters, the clock standing still and the upstream    *)
(* healthy.                                                                *)

WeatherPaths ==
  { <<SegApi, SegWeather>>,
    <<SegApi, SegWeather, SegKaohsiung>>,
    <<SegApi, SegWeather, Slug_taipei>> }

CityParams == {<<>>, Slug_taipei, L_kaohsiung}

LocationNameParams == {<<>>, L_taipei}

RoutedRequests ==
  {httpGet(path, city, locationName) :
     path \in WeatherPaths, city \in CityParams,
     locationName \in LocationNameParams}

NextRoutes ==
  \/ \E r \in Requests, h \in RoutedRequests : StartRequest(r, h)
  \/ \E r \in Requests :
       CompleteRequest(r, upstreamOk(<<>>, <<SunnyDay(reqs[r].locationName)>>))

SpecRoutes == Init /\ [][NextRoutes]_vars

(* C14: a getCache(k) that hits leaves the whole Map as it was, the expiry  *)
(* of k included: every entry expires 3 minutes after the last setCache of *)
(* its key whatever was read since, and a getCache(k) later than that      *)
(* finds the entry absent.                                                 *)
C14_HitLeavesCacheUnchanged ==
  /\ [][\A k \in CacheKeys :
          (CacheGet(k) /\ getCacheResult(cache, k, now) # null)
            => cache' = cache]_vars
  /\ [](\A k \in DOMAIN cache :
          /\ k \in DOMAIN cacheLog.lastSet
          /\ cache[k].expires = cacheLog.lastSet[k].at + CACHE_TTL_MS)
  /\ []( ( /\ cacheLog.lastGet # null
           /\ cacheLog.lastGet.since # null
           /\ cacheLog.lastGet.at
                > cacheLog.lastGet.since.at + CACHE_TTL_MS )
         => /\ cacheLog.lastGet.result = null
            /\ ~cacheLog.lastGet.present )

(* A getCache that hit some time after the setCache of its key: the entry  *)
(* still expires 3 minutes after that setCache, and the entry of the other *)
(* key is still there.                                                     *)
C14_Witness ==
  /\ cacheLog.lastGet # null
  /\ cacheLog.lastGet.result # null
  /\ cacheLog.lastGet.since # null
  /\ cacheLog.lastGet.at > cacheLog.lastGet.since.at
  /\ cacheLog.lastGet.key \in DOMAIN cache
  /\ cache[cacheLog.lastGet.key].expires
       = cacheLog.lastGet.since.at + CACHE_TTL_MS
  /\ now > cacheLog.lastGet.at
  /\ DOMAIN cache = CacheKeys

----------------------------------------------------------------------------
(* Properties of the request handler, checked under Spec.                  *)

Started(r) == reqs[r].pc # "new"
Answered(r) == reqs[r].pc = "done"

(* C1: when a request arrives after another one for the same canonical     *)
(* location was answered from a successful upstream call, at most 3        *)
(* minutes after that one's setCache and with no other setCache of the key *)
(* since, it is answered cached: true with the same data and no upstream   *)
(* call of its own: one upstream call for the two.                         *)
C1_SecondRequestServedFromCache ==
  \A r1, r2 \in Requests :
    ( /\ Started(r2)
      /\ r1 \in reqs[r2].after
      /\ reqs[r1].wrote
      /\ reqs[r2].locationName = reqs[r1].locationName
      /\ reqs[r2].sawWriter = r1
      /\ reqs[r2].sawFresh )
    => /\ Answered(r2)
       /\ reqs[r2].status = 200
       /\ "cached" \in DOMAIN reqs[r2].body
       /\ reqs[r2].body.cached = TRUE
       /\ reqs[r2].body.data = reqs[r1].body.data
       /\ reqs[r1].calls = 1
       /\ reqs[r2].calls = 0

(* Request 1 was answered from upstream; request 2, which names the same   *)
(* location by another alias, arrived exactly 3 minutes after the setCache *)
(* and was answered from the cache.                                        *)
C1_Witness ==
  /\ NumRequests >= 2
  /\ Answered(1) /\ reqs[1].wrote
  /\ Answered(2) /\ 1 \in reqs[2].after
  /\ reqs[1].http # reqs[2].http
  /\ reqs[2].locationName = reqs[1].locationName
  /\ reqs[2].sawWriter = 1
  /\ lastWrite[reqs[1].locationName].at + CACHE_TTL_MS = now
  /\ reqs[2].status = 200
  /\ reqs[2].body.cached = TRUE
  /\ reqs[2].calls = 0

(* A request rejected as an input error: the key is set and the resolved   *)
(* name is empty or no canonical name.                                     *)
InputError(r) ==
  /\ Started(r)
  /\ apiKey # <<>>
  /\ \/ reqs[r].locationName = <<>>
     \/ reqs[r].locationName \notin CanonicalNames

ListsAllowed(body) ==
  /\ "allowed" \in DOMAIN body
  /\ CanonicalNames \subseteq {body.allowed[i] : i \in 1..Len(body.allowed)}
  /\ Cardinality(CanonicalNames) = 22

(* C3, as stated: every request rejected as an input error is answered 400 *)
(* with a body that includes the allowed list of all 22 canonical names,   *)
(* and makes no upstream call.                                             *)
C3_InputErrorsListAllowed ==
  \A r \in Requests :
    InputError(r) =>
      /\ Answered(r)
      /\ reqs[r].status = 400
      /\ reqs[r].calls = 0
      /\ ListsAllowed(reqs[r].body)

(* The step that answers request r 400. *)
Rejects(r) == ~Started(r) /\ Answered(r)' /\ reqs'[r].status = 400

(* C3, amended: every request rejected as an input error is answered 400,  *)
(* makes no upstream call and leaves the cache as it was; the body         *)
(* includes the allowed list of all 22 canonical names when the resolved   *)
(* name is non-empty and no canonical name, and no allowed list when the   *)
(* resolved name is empty.                                                 *)
C3_InputErrorsAre400 ==
  /\ [](\A r \in Requests :
          InputError(r) =>
            /\ Answered(r)
            /\ reqs[r].status = 400
            /\ reqs[r].calls = 0
            /\ reqs[r].body.success = FALSE
            /\ IF reqs[r].locationName = <<>>
                 THEN "allowed" \notin DOMAIN reqs[r].body
                 ELSE ListsAllowed(reqs[r].body))
  /\ [][\A r \in Requests : Rejects(r) => cache' = cache]_vars

(* Both kinds of input error have been answered:                           *)
(* an unsupported name with the allowed list, a blank one without.         *)
C3_Witness ==
  /\ NumRequests >= 2
  /\ \E r \in Requests :
       /\ InputError(r) /\ reqs[r].locationName = Mars
       /\ reqs[r].status = 400 /\ ListsAllowed(reqs[r].body)
  /\ \E r \in Requests :
       /\ InputError(r) /\ reqs[r].locationName = <<>>
       /\ reqs[r].status = 400 /\ "allowed" \notin DOMAIN reqs[r].body

(* The step in which the upstream call of r ends in a failure: a non-2xx   *)
(* response, no response, or a payload with no location entry.             *)
FailsUpstream(r) ==
  /\ reqs[r].pc = "awaiting"
  /\ Answered(r)'
  /\ \/ reqs'[r].answer.kind \in {"httpError", "noResponse"}
     \/ /\ reqs'[r].answer.kind = "response"
        /\ reqs'[r].answer.records.location = <<>>

(* C6: a request that misses the cache makes exactly one upstream call; a  *)
(* non-2xx response is answered with the upstream's status, no response    *)
(* with 500, a payload with no location entry with 404, each as a          *)
(* structured error; none of these failures writes the cache, so that the  *)
(* next request for the location (no other having written it) calls        *)
(* upstream again.                                                         *)
C6_UpstreamFailuresAreSurfaced ==
  /\ [](\A r \in Requests :
          /\ reqs[r].calls \in {0, 1}
          /\ reqs[r].pc = "awaiting" => reqs[r].calls = 1
          /\ (Answered(r) /\ reqs[r].answer # null) =>
               /\ reqs[r].calls = 1
               /\ reqs[r].answer.kind = "httpError" =>
                    /\ reqs[r].status = reqs[r].answer.status
                    /\ reqs[r].body.success = FALSE
                    /\ ~reqs[r].wrote
               /\ reqs[r].answer.kind = "noResponse" =>
                    /\ reqs[r].status = 500
                    /\ reqs[r].body.success = FALSE
                    /\ ~reqs[r].wrote
               /\ ( /\ reqs[r].answer.kind = "response"
                    /\ reqs[r].answer.records.location = <<>> ) =>
                    /\ reqs[r].status = 404
                    /\ reqs[r].body.success = FALSE
                    /\ ~reqs[r].wrote
          /\ \A r2 \in Requests :
               ( /\ Started(r2)
                 /\ r \in reqs[r2].after
                 /\ reqs[r].calls = 1
                 /\ ~reqs[r].wrote
                 /\ reqs[r2].locationName = reqs[r].locationName
                 /\ reqs[r2].sawWriter = reqs[r].sawWriter )
               => reqs[r2].calls = 1)
  /\ [][\A r \in Requests :
          FailsUpstream(r) =>
            /\ cache' = cache
            /\ reqs'[r].calls = reqs[r].calls]_vars

(* Request 1 missed, its upstream call failed with status 503, and request *)
(* 2 for the same location then called upstream again.                     *)
C6_Witness ==
  /\ NumRequests >= 2
  /\ Answered(1)
  /\ reqs[1].answer # null
  /\ reqs[1].answer.kind = "httpError"
  /\ reqs[1].status = 503
  /\ Started(2)
  /\ 1 \in reqs[2].after
  /\ reqs[2].locationName = reqs[1].locationName
  /\ reqs[2].calls = 1

(* C11, as stated: an exception that is no upstream HTTP error response,    *)
(* here the upstream call ending without a response, is answered 500 with  *)
(* a structured body whose message is the error's own message and which    *)
(* carries no stack trace.                                                 *)
C11_InternalErrorsCarryOwnMessage ==
  \A r \in Requests :
    ( /\ Answered(r)
      /\ reqs[r].answer # null
      /\ reqs[r].answer.kind = "noResponse" )
    => /\ reqs[r].status = 500
       /\ reqs[r].body.success = FALSE
       /\ reqs[r].body.message = reqs[r].answer.message
       /\ "stack" \notin DOMAIN reqs[r].body

(* C12, as stated: a request to /api/weather/kaohsiung is handled as the    *)
(* query for 高雄市 whatever city or locationName parameters it carries:    *)
(* that is the name validated, looked up in the cache and sent upstream.   *)
C12_LegacyPathIsKaohsiung ==
  \A r \in Requests :
    ( /\ Started(r)
      /\ apiKey # <<>>
      /\ reqs[r].http.path = <<SegApi, SegWeather, SegKaohsiung>> )
    => /\ reqs[r].locationName = L_kaohsiung
       /\ reqs[r].status \in {0, 200}
       /\ Answered(r) => reqs[r].body.data.city = L_kaohsiung

(* Requests r1 and r2 are for the same canonical location, each found it   *)
(* uncached, and each looked up the cache before the upstream call of the  *)
(* other had returned.                                                     *)
Concurrent(r1, r2) ==
  /\ r1 # r2
  /\ apiKey # <<>>
  /\ Started(r1) /\ Started(r2)
  /\ reqs[r1].locationName \in CanonicalNames
  /\ reqs[r2].locationName = reqs[r1].locationName
  /\ ~reqs[r1].sawFresh /\ ~reqs[r2].sawFresh
  /\ r1 \notin reqs[r2].after
  /\ r2 \notin reqs[r1].after

(* C13: requests for the same uncached location that all look up the cache *)
(* before any of their upstream calls returns each miss and each make      *)
(* their own upstream call, no response is tagged cached, and once they    *)
(* have succeeded the entry holds the data and the expiry written by the   *)
(* one whose upstream response was processed last (until a later lookup    *)
(* finds it expired).                                                      *)
C13_ConcurrentMissesEachFetch ==
  \A r1, r2 \in Requests :
    Concurrent(r1, r2) =>
      LET L == reqs[r1].locationName
      IN  /\ reqs[r1].calls = 1 /\ reqs[r2].calls = 1
          /\ Answered(r1) => "cached" \notin DOMAIN reqs[r1].body
          /\ Answered(r2) => "cached" \notin DOMAIN reqs[r2].body
          /\ ( /\ reqs[r1].wrote /\ reqs[r2].wrote
               /\ lastWrite[L].by \in {r1, r2} ) =>
                /\ L \in DOMAIN cache =>
                     cache[L] =
                       [expires |-> lastWrite[L].at + CACHE_TTL_MS,
                        data |-> reqs[lastWrite[L].by].body.data]
                /\ (\A q \in Requests :
                       (Started(q) /\ reqs[q].locationName = L)
                         => ~({r1, r2} \subseteq reqs[q].after))
                     => L \in DOMAIN cache

(* Requests 1 and 2 both missed before either upstream call returned; the  *)
(* call of request 2 returned first, that of request 1 later and with      *)
(* other data, and the cache holds what request 1 wrote.                   *)
C13_Witness ==
  /\ NumRequests >= 2
  /\ Concurrent(1, 2)
  /\ reqs[1].wrote /\ reqs[2].wrote
  /\ reqs[1].body.data # reqs[2].body.data
  /\ lastWrite[reqs[1].locationName].by = 1
  /\ lastWrite[reqs[1].locationName].at > 0
  /\ reqs[1].locationName \in DOMAIN cache
  /\ cache[reqs[1].locationName].data = reqs[1].body.data
  /\ cache[reqs[1].locationName].expires = now + CACHE_TTL_MS

(* C15: a request for location A touches no entry but that of A.  Every    *)
(* entry was written by a request for its own key and holds that request's *)
(* data and expiry; an entry once written is gone only when a request for  *)
(* its own key found it expired; a response is determined by the request's *)
(* own upstream answer or, when cached, by the last write of its own key;  *)
(* and two suspended requests for different locations may resume in either *)
(* order: the cache and both responses come out the same.                  *)
C15_LocationsAreIndependent ==
  /\ \A k \in DOMAIN cache :
       /\ k \in DOMAIN lastWrite
       /\ reqs[lastWrite[k].by].locationName = k
       /\ cache[k] = [expires |-> lastWrite[k].at + CACHE_TTL_MS,
                      data |-> reqs[lastWrite[k].by].body.data]
  /\ \A k \in DOMAIN lastWrite \ DOMAIN cache :
       \E q \in Requests :
         /\ Started(q)
         /\ reqs[q].locationName = k
         /\ reqs[q].sawWriter = lastWrite[k].by
         /\ ~reqs[q].sawFresh
  /\ \A r \in Requests :
       (Answered(r) /\ reqs[r].locationName \in CanonicalNames) =>
         IF reqs[r].answer # null
           THEN LET alone == handlerResume(EmptyMap, 0, reqs[r].locationName,
                                           reqs[r].answer)
                IN  /\ reqs[r].status = alone.status
                    /\ reqs[r].body = alone.body
           ELSE /\ reqs[r].sawWriter # 0
                /\ reqs[reqs[r].sawWriter].locationName = reqs[r].locationName
                /\ reqs[r].body.data = reqs[reqs[r].sawWriter].body.data
  /\ \A r1, r2 \in Requests :
       ( /\ reqs[r1].pc = "awaiting" /\ reqs[r2].pc = "awaiting"
         /\ reqs[r1].locationName # reqs[r2].locationName ) =>
         LET A == reqs[r1].locationName
             B == reqs[r2].locationName
         IN  \A a1 \in UpstreamAnswers(A), a2 \in UpstreamAnswers(B) :
               LET x1  == handlerResume(cache, now, A, a1)
                   x12 == handlerResume(x1.cache, now, B, a2)
                   y2  == handlerResume(cache, now, B, a2)
                   y21 == handlerResume(y2.cache, now, A, a1)
               IN  /\ x12.cache = y21.cache
                   /\ x1.status = y21.status /\ x1.body = y21.body
                   /\ x12.status = y2.status /\ x12.body = y2.body

(* Request 2, for 高雄市, arrived while request 1, for 臺北市, was waiting   *)
(* for the upstream; both succeeded, request 2 first, and the cache holds  *)
(* the entry of each.                                                      *)
C15_Witness ==
  /\ NumRequests >= 2
  /\ Answered(1) /\ Answered(2)
  /\ reqs[1].locationName = L_taipei
  /\ reqs[2].locationName = L_kaohsiung
  /\ 1 \notin reqs[2].after
  /\ reqs[1].wrote /\ reqs[2].wrote
  /\ DOMAIN cache = {L_taipei, L_kaohsiung}
  /\ cache[L_kaohsiung].expires < cache[L_taipei].expires
  /\ cache[L_taipei].data = reqs[1].body.data
  /\ cache[L_kaohsiung].data = reqs[2].body.data

(* C16: every key of the cache is one of the 22 canonical names, so the    *)
(* cache never holds more than 22 entries, and every upstream call is      *)
(* issued with a canonical locationName, whatever the requests' inputs.    *)
C16_KeysAndQueriesAreCanonical ==
  /\ Cardinality(CanonicalNames) = 22
  /\ DOMAIN cache \subseteq CanonicalNames
  /\ Cardinality(DOMAIN cache) <= 22
  /\ \A r \in Requests :
       reqs[r].calls > 0 => reqs[r].locationName \in CanonicalNames
  /\ \A r \in Requests :
       reqs[r].wrote => reqs[r].locationName \in CanonicalNames

(* An alias was served from upstream and cached under its canonical name,  *)
(* and an unsupported name was rejected without a call or a key.           *)
C16_Witness ==
  /\ NumRequests >= 2
  /\ \E r \in Requests :
       /\ Answered(r) /\ reqs[r].http.city = Slug_taipei
       /\ reqs[r].calls = 1 /\ reqs[r].wrote
  /\ \E r \in Requests :
       /\ Answered(r) /\ reqs[r].http.city = Mars
       /\ reqs[r].calls = 0
  /\ DOMAIN cache = {L_taipei}

TaggedCached(r) ==
  /\ "cached" \in DOMAIN reqs[r].body
  /\ reqs[r].body.cached = TRUE

(* The upstream call of r ended in a 2xx response with a location entry. *)
FetchedLocation(r) ==
  /\ reqs[r].answer # null
  /\ reqs[r].answer.kind = "response"
  /\ reqs[r].answer.records.location # <<>>

(* What the reshaping makes of the upstream response of r. *)
Reshaped(r) ==
  reshape(pickFirstLocation(reqs[r].answer.records),
          reqs[r].answer.records.datasetDescription)

(* C17: a response is tagged cached: true exactly when the request made no *)
(* upstream call and found an unexpired entry; its data is then the        *)
(* forecast that the most recent write of its location stored, which is    *)
(* the reshaped payload of a successful upstream response with a location  *)
(* entry; and nothing else is ever written to the cache.                   *)
C17_CachedMeansStoredForecast ==
  /\ \A r \in Requests :
       Answered(r) =>
         /\ TaggedCached(r) <=> (reqs[r].calls = 0 /\ reqs[r].sawFresh)
         /\ TaggedCached(r) =>
              /\ reqs[r].status = 200
              /\ reqs[r].answer = null
              /\ reqs[r].sawWriter # 0
              /\ reqs[reqs[r].sawWriter].locationName = reqs[r].locationName
              /\ reqs[reqs[r].sawWriter].wrote
              /\ reqs[r].body.data = reqs[reqs[r].sawWriter].body.data
         /\ reqs[r].wrote <=> FetchedLocation(r)
         /\ reqs[r].wrote =>
              /\ reqs[r].status = 200
              /\ ~TaggedCached(r)
              /\ reqs[r].body.data = Reshaped(r)
  /\ \A r \in Requests : ~Answered(r) => ~reqs[r].wrote
  /\ \A k \in DOMAIN cache :
       /\ k \in DOMAIN lastWrite
       /\ reqs[lastWrite[k].by].wrote
       /\ cache[k].data = reqs[lastWrite[k].by].body.data

(* Request 1 stored the two-period forecast of a rainy day; request 2, a   *)
(* millisecond later, got that forecast tagged cached: true.               *)
C17_Witness ==
  /\ NumRequests >= 2
  /\ Answered(1) /\ reqs[1].wrote
  /\ reqs[1].answer.records.location = <<RainyDay(reqs[1].locationName)>>
  /\ Answered(2) /\ TaggedCached(2)
  /\ reqs[2].sawWriter = 1
  /\ Len(reqs[2].body.data.forecasts) = 2
  /\ reqs[2].body.data.updateTime = <<"3", "6", "h">>
  /\ now = lastWrite[reqs[1].locationName].at + 1

(* C18: every request that arrives is eventually answered, on every path,  *)
(* given that every upstream call ends; it is answered once: its response  *)
(* never changes afterwards; and the failure of one request's upstream     *)
(* call changes nothing of any other request, each of which can still be   *)
(* resumed with any answer of the upstream.                                *)
C18_EveryRequestAnsweredOnce ==
  /\ \A r \in Requests : Started(r) ~> Answered(r)
  /\ [](\A r \in Requests :
          /\ Answered(r) => (reqs[r].status # 0 /\ reqs[r].body # null)
          /\ ~Answered(r) => (reqs[r].status = 0 /\ reqs[r].body = null)
          /\ reqs[r].pc = "awaiting" =>
               \A answer \in UpstreamAnswers(reqs[r].locationName) :
                 ENABLED CompleteRequest(r, answer))
  /\ [][\A r \in Requests : Answered(r) => reqs'[r] = reqs[r]]_vars
  /\ [][\A r \in Requests :
          FailsUpstream(r) =>
            \A q \in Requests \ {r} : reqs'[q] = reqs[q]]_vars

(* The upstream call of request 1 ended without a response while request 2 *)
(* was waiting for its own; request 1 was answered 500 and request 2, for  *)
(* the same location, was then answered 200 from its upstream response.    *)
C18_Witness ==
  /\ NumRequests >= 2
  /\ Answered(1) /\ Answered(2)
  /\ reqs[1].answer = upstreamNoResponse
  /\ reqs[1].status = 500
  /\ 1 \notin reqs[2].after
  /\ reqs[2].locationName = reqs[1].locationName
  /\ reqs[2].status = 200 /\ reqs[2].wrote

(* C7: while the API key is absent every weather request, whatever its     *)
(* route and input, is answered 500, makes no upstream call and writes     *)
(* nothing to the cache, and the next request can still be served.         *)
C7_MissingKeyIsAlways500 ==
  apiKey = <<>> =>
    /\ \A r \in Requests :
         Started(r) =>
           /\ Answered(r)
           /\ reqs[r].status = 500
           /\ reqs[r].calls = 0
           /\ reqs[r].body.success = FALSE
           /\ reqs[r].body.error = ERR_CONFIG
    /\ cache = EmptyMap
    /\ lastWrite = EmptyMap
    /\ (\E r \in Requests : ~Started(r)) =>
         ENABLED (\E r \in Requests, h \in HttpRequests : StartRequest(r, h))

(* With no API key, a request on /api/weather/:city for a valid city and a *)
(* request on /api/weather for an unsupported one were both answered 500.  *)
C7_Witness ==
  /\ NumRequests >= 2
  /\ apiKey = <<>>
  /\ Answered(1) /\ Answered(2)
  /\ reqs[1].http = httpGet(<<SegApi, SegWeather, SegKaohsiung>>, <<>>, <<>>)
  /\ reqs[2].http = httpGet(<<SegApi, SegWeather>>, Mars, <<>>)
  /\ reqs[1].status = 500 /\ reqs[2].status = 500

====
